---- MODULE Spec2Model ----
(***************************************************************************)
(* The DOCX-to-Markdown converters extract_docx_exact (analyze_docx.py)    *)
(* and extract_docx_simple (extract_docx_simple.py).                       *)
(*                                                                         *)
(* A Python str is a sequence of one-character strings, so that strip,     *)
(* replace, join and the 'in' substring test are computed character by     *)
(* character.  A document is what python-docx exposes: paragraphs with a   *)
(* style name and a text, tables of rows of cells of paragraph texts.      *)
(* The file system maps a path to what it holds.                           *)
(***************************************************************************)
EXTENDS Integers, Sequences, FiniteSets, TLC

VARIABLES
    script,            \* which of the two functions is called
    filename,          \* the argument of the call
    fs,                \* the file system: path -> file
    readonly,          \* the paths open(..., 'w') is refused on
    pc,                \* the position in the function
    doc,               \* the Document loaded by the call
    markdown_content,  \* the list of lines built so far
    report,            \* the outcome the call printed
    ret,               \* the value the call returned
    fs0,               \* the file system when the call began
    history            \* one record per finished call

vars == <<script, filename, fs, readonly, pc, doc, markdown_content,
          report, ret, fs0, history>>

-----------------------------------------------------------------------------
(* Bounds of the inputs.                                                   *)

MaxParas == 2
MaxTables == 2
MaxRows == 2
MaxCols == 2
MaxRuns == 2

SeqUpTo(S, n) == UNION {[1..k -> S] : k \in 0..n}

-----------------------------------------------------------------------------
(* Python str operations.                                                  *)

Whitespace == {" ", "\n", "\r", "\t"}

RECURSIVE LStrip(_)
LStrip(s) ==
    IF s # <<>> /\ Head(s) \in Whitespace THEN LStrip(Tail(s)) ELSE s

RECURSIVE RStrip(_)
RStrip(s) ==
    IF s # <<>> /\ s[Len(s)] \in Whitespace
    THEN RStrip(SubSeq(s, 1, Len(s) - 1))
    ELSE s

\* str.strip()
Strip(s) == RStrip(LStrip(s))

\* s[i:] starts with sub
StartsAt(s, sub, i) ==
    /\ i + Len(sub) - 1 <= Len(s)
    /\ \A j \in 1..Len(sub) : s[i + j - 1] = sub[j]

\* sub in s
Contains(s, sub) == \E i \in 1..(Len(s) + 1) : StartsAt(s, sub, i)

\* str.replace(old, new) for a non-empty old: every non-overlapping
\* occurrence, scanning from the left
RECURSIVE ReplaceFrom(_, _, _, _)
ReplaceFrom(s, old, new, i) ==
    IF i > Len(s) THEN <<>>
    ELSE IF StartsAt(s, old, i)
         THEN new \o ReplaceFrom(s, old, new, i + Len(old))
         ELSE <<s[i]>> \o ReplaceFrom(s, old, new, i + 1)

Replace(s, old, new) == ReplaceFrom(s, old, new, 1)

\* sep.join(items)
RECURSIVE Join(_, _)
Join(sep, items) ==
    IF items = <<>> THEN <<>>
    ELSE IF Len(items) = 1 THEN items[1]
    ELSE items[1] \o sep \o Join(sep, Tail(items))

DigitChars == <<"0", "1", "2", "3", "4", "5", "6", "7", "8", "9">>

\* the decimal text of n in an f-string
RECURSIVE DecStr(_)
DecStr(n) ==
    IF n < 10 THEN <<DigitChars[n + 1]>>
    ELSE DecStr(n \div 10) \o <<DigitChars[(n % 10) + 1]>>

-----------------------------------------------------------------------------
(* String literals of the source.                                          *)

StyleNormal == <<"N", "o", "r", "m", "a", "l">>
StyleTitle == <<"T", "i", "t", "l", "e">>
HeadingWord == <<"H", "e", "a", "d", "i", "n", "g">>
HeadingSpaced(n) == HeadingWord \o <<" ">> \o DecStr(n)
HeadingJoined(n) == HeadingWord \o DecStr(n)
DocxExt == <<".", "d", "o", "c", "x">>
OutputSuffix == <<"_", "e", "x", "a", "c", "t", "_", "e", "x", "t", "r", "a",
                  "c", "t", "i", "o", "n", ".", "m", "d">>
RuleLine == <<"-", "-", "-">>
TablesSectionLine == <<"#", " ", "T", "A", "B", "L", "E", "S", " ", "S", "E",
                       "C", "T", "I", "O", "N">>
DocumentTablesLine == <<"#", " ", "D", "O", "C", "U", "M", "E", "N", "T", " ",
                        "T", "A", "B", "L", "E", "S">>
TableHeadingPrefix == <<"#", "#", " ", "T", "a", "b", "l", "e", " ">>
RowOpen == <<"|", " ">>
CellSep == <<" ", "|", " ">>
RowClose == <<" ", "|">>
Newline == <<"\n">>
Blank == <<>>

Scripts == {"analyze_docx", "extract_docx_simple"}

-----------------------------------------------------------------------------
(* Paragraphs.                                                             *)

\* paragraph.style.name if paragraph.style else 'Normal'
StyleOf(p) == IF p.hasStyle THEN p.style ELSE StyleNormal

Hashes(n) == [i \in 1..n |-> "#"]

\* the chain with the "Heading 2" branch emitting the prefix of the next
HeadingLevelVariant(style) ==
    IF Contains(style, StyleTitle) THEN 1
    ELSE IF Contains(style, HeadingSpaced(1)) \/ style = HeadingJoined(1) THEN 1
    ELSE IF Contains(style, HeadingSpaced(2)) \/ style = HeadingJoined(2) THEN 3
    ELSE IF Contains(style, HeadingSpaced(3)) \/ style = HeadingJoined(3) THEN 3
    ELSE IF Contains(style, HeadingSpaced(4)) \/ style = HeadingJoined(4) THEN 4
    ELSE IF Contains(style, HeadingSpaced(5)) \/ style = HeadingJoined(5) THEN 5
    ELSE IF Contains(style, HeadingSpaced(6)) \/ style = HeadingJoined(6) THEN 6
    ELSE 0

\* the heading level of the if/elif chain: 0 is the final else
HeadingLevel(style) ==
    IF Contains(style, StyleTitle) THEN 1
    ELSE IF Contains(style, HeadingSpaced(1)) \/ style = HeadingJoined(1) THEN 1
    ELSE IF Contains(style, HeadingSpaced(2)) \/ style = HeadingJoined(2) THEN 2
    ELSE IF Contains(style, HeadingSpaced(3)) \/ style = HeadingJoined(3) THEN 3
    ELSE IF Contains(style, HeadingSpaced(4)) \/ style = HeadingJoined(4) THEN 4
    ELSE IF Contains(style, HeadingSpaced(5)) \/ style = HeadingJoined(5) THEN 5
    ELSE IF Contains(style, HeadingSpaced(6)) \/ style = HeadingJoined(6) THEN 6
    ELSE 0

\* the line appended for a paragraph whose stripped text is text
ParagraphLine(style, text) ==
    IF HeadingLevel(style) = 0 THEN text
    ELSE Hashes(HeadingLevel(style)) \o <<" ">> \o text

\* the paragraph loop without its test of the text
RECURSIVE ParagraphLinesKeepEmpty(_)
ParagraphLinesKeepEmpty(ps) ==
    IF ps = <<>> THEN <<>>
    ELSE <<ParagraphLine(StyleOf(Head(ps)), Strip(Head(ps).text)), Blank>>
         \o ParagraphLinesKeepEmpty(Tail(ps))

\* the paragraph loop: a line and a blank line per non-empty paragraph
RECURSIVE ParagraphLines(_)
ParagraphLines(ps) ==
    IF ps = <<>> THEN <<>>
    ELSE LET text == Strip(Head(ps).text)
         IN (IF text # <<>>
             THEN <<ParagraphLine(StyleOf(Head(ps)), text), Blank>>
             ELSE <<>>)
            \o ParagraphLines(Tail(ps))

-----------------------------------------------------------------------------
(* Tables.                                                                 *)

\* the loop over cell.paragraphs: a space before every text but the first
\* one appended to a non-empty cell_text
RECURSIVE CellJoin(_, _)
CellJoin(cell_text, paras) ==
    IF paras = <<>> THEN cell_text
    ELSE CellJoin((IF cell_text # <<>> THEN cell_text \o <<" ">> ELSE cell_text)
                    \o Strip(Head(paras)),
                  Tail(paras))

\* cell_text.replace("|", "\\|").replace("\n", " ").replace("\r", " ")
CleanCellText(cell_text) ==
    Replace(Replace(Replace(cell_text, <<"|">>, <<"\\", "|">>),
                    <<"\n">>, <<" ">>),
            <<"\r">>, <<" ">>)

\* the text appended to row_data for one cell
CellText(cell) == Strip(CleanCellText(CellJoin(<<>>, cell)))

RowData(row) == [c \in 1..Len(row) |-> CellText(row[c])]

TableData(table) == [r \in 1..Len(table) |-> RowData(table[r])]

\* analyze_docx: max_cols = 0, then max_cols = max(max_cols, len(row_data))
\* after each row
RECURSIVE max_cols_loop(_, _)
max_cols_loop(max_cols, table_data) ==
    IF table_data = <<>> THEN max_cols
    ELSE max_cols_loop(IF Len(Head(table_data)) > max_cols
                       THEN Len(Head(table_data))
                       ELSE max_cols,
                       Tail(table_data))

\* extract_docx_simple: max(len(row) for row in table_data) if table_data
\* else 0
max_cols_of(table_data) ==
    IF table_data # <<>>
    THEN CHOOSE n \in {Len(table_data[r]) : r \in 1..Len(table_data)} :
            \A r \in 1..Len(table_data) : n >= Len(table_data[r])
    ELSE 0

\* a row left as it is
PadRowNot(row, n) == row

\* while len(row) < max_cols: row.append("")
PadRow(row, n) ==
    [c \in 1..(IF Len(row) < n THEN n ELSE Len(row)) |->
        IF c <= Len(row) THEN row[c] ELSE <<>>]

\* "| " + " | ".join(row) + " |"
RowLine(row) == RowOpen \o Join(CellSep, row) \o RowClose

\* the header line, the separator line and the data lines
GridLines(padded) ==
    LET headers == padded[1]
    IN <<RowLine(headers), RowLine([c \in 1..Len(headers) |-> RuleLine])>>
       \o [r \in 1..(Len(padded) - 1) |-> RowLine(padded[r + 1])]

Padded(table_data, n) ==
    [r \in 1..Len(table_data) |-> PadRow(table_data[r], n)]

\* analyze_docx: if table_data and max_cols > 0: pad the rows, then
\* if len(table_data) > 0: emit the grid
TableGridExact(table_data) ==
    LET max_cols == max_cols_loop(0, table_data)
    IN IF table_data # <<>> /\ max_cols > 0
       THEN IF Len(table_data) > 0
            THEN GridLines(Padded(table_data, max_cols))
            ELSE <<>>
       ELSE <<>>

\* extract_docx_simple: if table_data: pad the rows, then
\* if max_cols > 0: emit the grid
TableGridSimple(table_data) ==
    IF table_data # <<>>
    THEN IF max_cols_of(table_data) > 0
         THEN GridLines(Padded(table_data, max_cols_of(table_data)))
         ELSE <<>>
    ELSE <<>>

\* the grid emitted whenever the table has a row, whatever its width
TableGridUnguarded(s, table_data) ==
    IF table_data # <<>>
    THEN GridLines(Padded(table_data, max_cols_of(table_data)))
    ELSE <<>>

TableGrid(s, table_data) ==
    IF s = "analyze_docx"
    THEN TableGridExact(table_data)
    ELSE TableGridSimple(table_data)

\* f"## Table {table_idx}"
TableHeadingFromZero(table_idx) == TableHeadingPrefix \o DecStr(table_idx - 1)

\* f"## Table {table_idx + 1}", table_idx counted here from 1
TableHeading(table_idx) == TableHeadingPrefix \o DecStr(table_idx)

\* the lines of one pass of the table loop
TableLines(s, table_idx, table) ==
    <<TableHeading(table_idx), Blank>> \o TableGrid(s, TableData(table))
    \o <<Blank>>

\* "# TABLES SECTION" in analyze_docx, "# DOCUMENT TABLES" in
\* extract_docx_simple
SectionLine(s) ==
    IF s = "analyze_docx" THEN TablesSectionLine ELSE DocumentTablesLine

RECURSIVE TableBlocks(_, _, _)
TableBlocks(s, tables, done) ==
    IF done = Len(tables) THEN <<>>
    ELSE TableLines(s, done + 1, tables[done + 1])
         \o TableBlocks(s, tables, done + 1)

\* if doc.tables: the rule, the section header, then every table
TablesSection(s, tables) ==
    IF tables # <<>>
    THEN <<RuleLine, Blank, SectionLine(s), Blank>> \o TableBlocks(s, tables, 0)
    ELSE <<>>

-----------------------------------------------------------------------------
(* Files.                                                                  *)

NoDoc == [paragraphs |-> <<>>, tables |-> <<>>, raises |-> "none"]

Absent == [kind |-> "absent", doc |-> NoDoc, data |-> <<>>]
DocxFile(d) == [kind |-> "docx", doc |-> d, data |-> <<>>]
TextFile(chars) == [kind |-> "text", doc |-> NoDoc, data |-> chars]

\* filename.replace('.docx', '_exact_extraction.md')
OutputName(name) == Replace(name, DocxExt, OutputSuffix)

\* the file opened in append mode
WriteFileAppend(f, name, lines) ==
    [f EXCEPT ![name] = TextFile(f[name].data \o Join(Newline, lines))]

\* with open(output_filename, 'w') as f: f.write('\n'.join(markdown_content))
WriteFile(f, name, lines) == [f EXCEPT ![name] = TextFile(Join(Newline, lines))]

NoneValue == [isNone |-> TRUE, value |-> <<>>]
StrValue(chars) == [isNone |-> FALSE, value |-> chars]

-----------------------------------------------------------------------------
(* The inputs: documents, file names and file systems.                     *)

Para(style, text) == [hasStyle |-> TRUE, style |-> style, text |-> text]
Unstyled(text) == [hasStyle |-> FALSE, style |-> <<>>, text |-> text]
Document(ps, ts) == [paragraphs |-> ps, tables |-> ts, raises |-> "none"]

\* style names: the built-in ones and custom ones that contain them
Styles ==
    {StyleNormal, StyleTitle, <<"S", "u", "b", "t", "i", "t", "l", "e">>,
     <<"h", "e", "a", "d", "i", "n", "g", " ", "2">>,
     HeadingSpaced(2) \o <<" ", "C", "h", "a", "r">>,
     <<"M", "y", " ">> \o HeadingSpaced(2),
     StyleTitle \o <<" ">> \o HeadingSpaced(2),
     HeadingSpaced(2) \o <<" ">> \o StyleTitle,
     HeadingSpaced(1) \o <<" ">> \o HeadingSpaced(2),
     HeadingSpaced(2) \o <<"0">>,
     HeadingJoined(2) \o <<"0">>,
     HeadingSpaced(7)}
    \cup {HeadingSpaced(n) : n \in 1..6} \cup {HeadingJoined(n) : n \in 1..6}

ParaTexts == {<<"a">>, <<" ", "a", "\n", "b", "\n">>, <<" ", "\t">>, <<>>}

\* paragraphs that documents of several paragraphs are made of
ParaChoices ==
    {Para(StyleNormal, <<"a">>), Para(StyleTitle, <<"b">>),
     Para(HeadingSpaced(2), <<" ", "c", " ">>), Para(StyleNormal, <<" ">>),
     Unstyled(<<"d", "\n", "e">>)}

\* cells: the paragraph texts of each
CellChoices ==
    {<<<<"a">>>>, <<<<>>>>, <<<<"|">>>>, <<<<"a", "|", "b">>>>,
     <<<<"\\", "|">>>>, <<<<"a", "\\">>>>, <<<<"a", "\n", "b">>>>,
     <<<<"a", "\r", "|">>>>, <<<<"a">>, <<"b">>>>, <<<<>>, <<" ", "b">>>>,
     <<<<"a", " ">>, <<"\n">>>>}

CellCycle == <<<<<<"a">>>>, <<<<"b", "|">>>>, <<<<>>>>, <<<<"c">>, <<"d">>>>>>

\* the table whose r-th row has lens[r] cells
ShapeTable(lens) ==
    [r \in 1..Len(lens) |->
        [c \in 1..lens[r] |-> CellCycle[((r + c) % Len(CellCycle)) + 1]]]

ShapeTables == {ShapeTable(lens) : lens \in SeqUpTo(0..MaxCols, MaxRows)}

RowTables == {<<row>> : row \in SeqUpTo(CellChoices, MaxCols)}

SimpleTables ==
    {<<>>, <<<<>>>>,
     <<<<<<<<"a">>>>, <<<<"b">>>>>>, <<<<<<"c">>>>>>>>}

\* the documents converted from a.docx on a quiet file system
Docs ==
    {Document(ps, <<>>) : ps \in SeqUpTo(ParaChoices, MaxParas)}
    \cup {Document(<<Para(st, tx)>>, <<>>) : st \in Styles, tx \in ParaTexts}
    \cup {Document(<<>>, <<t>>) : t \in ShapeTables \cup RowTables}
    \cup {Document(ps, ts) : ps \in {<<>>, <<Para(StyleNormal, <<"a">>)>>},
                             ts \in SeqUpTo(SimpleTables, MaxTables)}

\* the documents converted under every file name and file system
EnvDocs ==
    {Document(<<>>, <<>>),
     Document(<<Para(StyleTitle, <<"a">>)>>, <<<<<<<<<<"b">>>>>>>>>>)}
    \cup {[paragraphs |-> <<Para(StyleNormal, <<"a">>)>>,
           tables |-> <<<<<<<<<<"b">>>>>>>>>>,
           raises |-> r] : r \in {"paragraphs", "tables"}}

NameA == <<"a">>
DefaultName == NameA \o DocxExt

FileNames ==
    {DefaultName,
     NameA \o <<".", "D", "O", "C", "X">>,
     NameA \o <<".", "d", "o", "c">>,
     NameA,
     NameA \o DocxExt \o DocxExt,
     NameA \o DocxExt \o <<".", "b", "a", "k">>,
     DocxExt \o <<"a">> \o DocxExt}

OtherPath == <<"o">>

Paths == FileNames \cup {OutputName(n) : n \in FileNames} \cup {OtherPath}

OldText == <<"o", "l", "d">>

FileSystem(name, input, output) ==
    [p \in Paths |->
        IF p = name THEN input
        ELSE IF p = OutputName(name) THEN output
        ELSE IF p = OtherPath THEN TextFile(OldText)
        ELSE Absent]

-----------------------------------------------------------------------------
(* The call, step by step.                                                 *)

StartCall(s, name, f, ro) ==
    /\ script = s
    /\ filename = name
    /\ fs = f
    /\ readonly = ro
    /\ pc = "start"
    /\ doc = NoDoc
    /\ markdown_content = <<>>
    /\ report = "none"
    /\ ret = NoneValue
    /\ fs0 = f
    /\ history = <<>>

Init ==
    \/ \E s \in Scripts, d \in Docs :
          StartCall(s, DefaultName, FileSystem(DefaultName, DocxFile(d), Absent), {})
    \/ \E s \in Scripts, name \in FileNames,
          input \in {Absent, TextFile(OldText)} \cup {DocxFile(d) : d \in EnvDocs},
          output \in {Absent, TextFile(OldText)} :
          \E ro \in {{}, {OutputName(name)}} :
             StartCall(s, name, FileSystem(name, input, output), ro)

Finish(rep, value) ==
    /\ pc' = "done"
    /\ report' = rep
    /\ ret' = value
    /\ history' = Append(history,
                         [before |-> fs0, after |-> fs, report |-> rep,
                          ret |-> value, lines |-> markdown_content])

\* if not os.path.exists(filename): print the error, return
CheckExists ==
    /\ pc = "start"
    /\ IF fs[filename].kind = "absent"
       THEN /\ Finish("not_found", NoneValue)
            /\ UNCHANGED <<script, filename, fs, readonly, doc,
                           markdown_content, fs0>>
       ELSE /\ pc' = "open"
            /\ UNCHANGED <<script, filename, fs, readonly, doc,
                           markdown_content, report, ret, fs0, history>>

\* the output file opened for writing before the document is read
OpenDocumentTruncating ==
    /\ pc = "open"
    /\ fs' = [fs EXCEPT ![OutputName(filename)] = TextFile(<<>>)]
    /\ IF fs[filename].kind = "docx"
       THEN /\ doc' = fs[filename].doc
            /\ pc' = "paragraphs"
            /\ UNCHANGED report
       ELSE /\ pc' = "except"
            /\ report' = "error_parse"
            /\ UNCHANGED doc
    /\ UNCHANGED <<script, filename, readonly, markdown_content, ret, fs0,
                   history>>

\* doc = Document(filename): raises unless the file is a DOCX package
OpenDocument ==
    /\ pc = "open"
    /\ IF fs[filename].kind = "docx"
       THEN /\ doc' = fs[filename].doc
            /\ pc' = "paragraphs"
            /\ UNCHANGED report
       ELSE /\ pc' = "except"
            /\ report' = "error_parse"
            /\ UNCHANGED doc
    /\ UNCHANGED <<script, filename, fs, readonly, markdown_content, ret, fs0,
                   history>>

\* for i, paragraph in enumerate(doc.paragraphs): ...
ProcessParagraphs ==
    /\ pc = "paragraphs"
    /\ IF doc.raises = "paragraphs"
       THEN /\ pc' = "except"
            /\ report' = "error_paragraphs"
            /\ UNCHANGED markdown_content
       ELSE /\ markdown_content' = ParagraphLines(doc.paragraphs)
            /\ pc' = "tables"
            /\ UNCHANGED report
    /\ UNCHANGED <<script, filename, fs, readonly, doc, ret, fs0, history>>

\* if doc.tables: ...
ProcessTables ==
    /\ pc = "tables"
    /\ IF doc.raises = "tables"
       THEN /\ pc' = "except"
            /\ report' = "error_tables"
            /\ UNCHANGED markdown_content
       ELSE /\ markdown_content' =
                  markdown_content \o TablesSection(script, doc.tables)
            /\ pc' = "write"
            /\ UNCHANGED report
    /\ UNCHANGED <<script, filename, fs, readonly, doc, ret, fs0, history>>

\* open(output_filename, 'w') and f.write(...): open raises on a path that
\* cannot be written
WriteOutput ==
    /\ pc = "write"
    /\ IF OutputName(filename) \in readonly
       THEN /\ pc' = "except"
            /\ report' = "error_write"
            /\ UNCHANGED fs
       ELSE /\ fs' = WriteFile(fs, OutputName(filename), markdown_content)
            /\ pc' = "return"
            /\ report' = "created"
    /\ UNCHANGED <<script, filename, readonly, doc, markdown_content, ret, fs0,
                   history>>

\* extract_docx_simple: return output_filename; extract_docx_exact ends
\* without a return statement
ReturnValue(s, name) ==
    IF s = "extract_docx_simple" THEN StrValue(OutputName(name)) ELSE NoneValue

Return ==
    /\ pc = "return"
    /\ Finish(report, ReturnValue(script, filename))
    /\ UNCHANGED <<script, filename, fs, readonly, doc, markdown_content, fs0>>

\* except Exception as e: print the error and the trace (return None)
HandleException ==
    /\ pc = "except"
    /\ Finish(report, NoneValue)
    /\ UNCHANGED <<script, filename, fs, readonly, doc, markdown_content, fs0>>

\* the function called again with the same argument
CallAgain ==
    /\ pc = "done"
    /\ Len(history) < MaxRuns
    /\ pc' = "start"
    /\ doc' = NoDoc
    /\ markdown_content' = <<>>
    /\ report' = "none"
    /\ ret' = NoneValue
    /\ fs0' = fs
    /\ UNCHANGED <<script, filename, fs, readonly, history>>

Next ==
    \/ CheckExists
    \/ OpenDocument
    \/ ProcessParagraphs
    \/ ProcessTables
    \/ WriteOutput
    \/ Return
    \/ HandleException
    \/ CallAgain

Spec == Init /\ [][Next]_vars

-----------------------------------------------------------------------------
(* What the claims speak of, read off the document and the emitted lines.  *)

\* markdown_content holds every line of the call
Rendered == pc \in {"write", "return"}

Trimmed(p) == Strip(p.text)

\* the number of paragraphs among the first i whose trimmed text is not empty
NonEmptyUpTo(ps, i) == Cardinality({j \in 1..i : Trimmed(ps[j]) # <<>>})

NonEmptyCount(ps) == NonEmptyUpTo(ps, Len(ps))

EndsWith(s, suffix) ==
    /\ Len(suffix) <= Len(s)
    /\ SubSeq(s, Len(s) - Len(suffix) + 1, Len(s)) = suffix

\* the largest cell count of any row of the table
Widest(table) ==
    IF table = <<>> THEN 0
    ELSE CHOOSE n \in {Len(table[r]) : r \in 1..Len(table)} :
            \A r \in 1..Len(table) : Len(table[r]) <= n

\* the table has at least one row and at least one cell in some row
HasGrid(table) == Widest(table) > 0

\* the number of lines of a table's block: its header, a blank line, a grid
\* of a header line, a separator line and the remaining rows, a blank line
BlockLen(table) == IF HasGrid(table) THEN Len(table) + 4 ELSE 3

RECURSIVE BlocksLen(_, _)
BlocksLen(tables, k) ==
    IF k = 0 THEN 0 ELSE BlocksLen(tables, k - 1) + BlockLen(tables[k])

\* the index in markdown_content of the header of the k-th table
BlockStart(d, k) ==
    2 * NonEmptyCount(d.paragraphs) + 4 + BlocksLen(d.tables, k - 1) + 1

\* the index of the line of row r of the k-th table (row 1 is the header
\* line, the separator line follows it)
RowIndex(d, k, r) == BlockStart(d, k) + 1 + (IF r = 1 THEN 1 ELSE r + 1)

SeparatorIndex(d, k) == BlockStart(d, k) + 3

\* the indices of the grid lines of the k-th table
GridIndices(d, k) ==
    IF HasGrid(d.tables[k])
    THEN (BlockStart(d, k) + 2)..(BlockStart(d, k) + 2 + Len(d.tables[k]))
    ELSE {}

\* the pipes of a line that delimit fields: those the cell text did not
\* bring, which are the ones not directly after a backslash
Delimiters(line) ==
    {i \in 1..Len(line) : line[i] = "|" /\ (i = 1 \/ line[i - 1] # "\\")}

NthDelimiter(line, n) ==
    CHOOSE i \in Delimiters(line) :
        Cardinality({j \in Delimiters(line) : j < i}) = n - 1

\* the pipe-delimited fields of a line, between its first and last pipe
Fields(line) ==
    [c \in 1..(Cardinality(Delimiters(line)) - 1) |->
        SubSeq(line, NthDelimiter(line, c) + 1, NthDelimiter(line, c + 1) - 1)]

\* a field as the join writes it: one space on either side of the cell text
FieldOf(cell_text) == <<" ">> \o cell_text \o <<" ">>

\* the pipes of s[i..] that a Markdown reader takes as cell boundaries: a
\* backslash escapes the character after it, whichever it is
RECURSIVE UnescapedPipes(_, _)
UnescapedPipes(s, i) ==
    IF i > Len(s) THEN 0
    ELSE IF s[i] = "\\" THEN UnescapedPipes(s, i + 2)
    ELSE IF s[i] = "|" THEN 1 + UnescapedPipes(s, i + 1)
    ELSE UnescapedPipes(s, i + 1)

-----------------------------------------------------------------------------
(* The claims.                                                             *)

\* C1: for every table with at least one row and at least one cell in some
\* row, the header line, the separator line and every data line of its grid
\* have exactly as many pipe-delimited fields as the widest row has cells,
\* and the fields beyond a row's own cells are empty.
C1_Rectangular ==
    Rendered =>
        \A k \in 1..Len(doc.tables) :
            LET table == doc.tables[k]
            IN /\ \A i \in GridIndices(doc, k) :
                     Len(Fields(markdown_content[i])) = Widest(table)
               /\ HasGrid(table) =>
                     \A r \in 1..Len(table) :
                        \A c \in (Len(table[r]) + 1)..Widest(table) :
                           Fields(markdown_content[RowIndex(doc, k, r)])[c]
                              = FieldOf(<<>>)

\* C1 witness: a table whose second row is shorter than its first has been
\* rendered, and its second row's line ends in an empty field.
C1_Witness ==
    /\ Rendered
    /\ \E k \in 1..Len(doc.tables) :
          /\ Len(doc.tables[k]) = 2
          /\ Len(doc.tables[k][1]) = 2
          /\ Len(doc.tables[k][2]) = 1
          /\ Fields(markdown_content[RowIndex(doc, k, 2)])[2] = FieldOf(<<>>)

\* C2: no emitted table row holds a newline or a carriage return, and read
\* with a backslash escaping the character after it, the row has exactly
\* as many unescaped pipes as bound max_cols fields (max_cols + 1).
C2_EscapedSplit ==
    Rendered =>
        \A k \in 1..Len(doc.tables) :
            \A i \in GridIndices(doc, k) :
                LET line == markdown_content[i]
                IN /\ \A j \in 1..Len(line) : line[j] \notin {"\n", "\r"}
                   /\ UnescapedPipes(line, 1) = Widest(doc.tables[k]) + 1

\* C3 as stated: every non-empty paragraph whose style name contains
\* "Heading 2" is emitted as "## " and its trimmed text, whatever else the
\* style name contains.
C3_Original ==
    pc \in {"tables", "write", "return"} =>
        \A i \in 1..Len(doc.paragraphs) :
            LET p == doc.paragraphs[i]
            IN (Trimmed(p) # <<>> /\ Contains(StyleOf(p), HeadingSpaced(2)))
               => markdown_content[2 * NonEmptyUpTo(doc.paragraphs, i) - 1]
                     = <<"#", "#", " ">> \o Trimmed(p)

\* C3 amended: every non-empty paragraph whose style name contains
\* "Heading 2" and contains neither "Title" nor "Heading 1" is emitted as
\* "## " and its trimmed text.
C3_Heading2 ==
    pc \in {"tables", "write", "return"} =>
        \A i \in 1..Len(doc.paragraphs) :
            LET p == doc.paragraphs[i]
            IN (/\ Trimmed(p) # <<>>
                /\ Contains(StyleOf(p), HeadingSpaced(2))
                /\ ~Contains(StyleOf(p), StyleTitle)
                /\ ~Contains(StyleOf(p), HeadingSpaced(1)))
               => markdown_content[2 * NonEmptyUpTo(doc.paragraphs, i) - 1]
                     = <<"#", "#", " ">> \o Trimmed(p)

\* C3 witness: a paragraph of a custom style that contains "Heading 2"
\* among other words has been emitted as a second-level heading.
C3_Witness ==
    /\ pc = "tables"
    /\ \E i \in 1..Len(doc.paragraphs) :
          LET p == doc.paragraphs[i]
          IN /\ Trimmed(p) # <<>>
             /\ p.text # Trimmed(p)
             /\ Contains(StyleOf(p), HeadingSpaced(2))
             /\ StyleOf(p) # HeadingSpaced(2)
             /\ markdown_content[2 * NonEmptyUpTo(doc.paragraphs, i) - 1]
                   = <<"#", "#", " ">> \o Trimmed(p)


\* the rendered line and two newlines for every non-empty paragraph
RECURSIVE ParagraphBytes(_)
ParagraphBytes(ps) ==
    IF ps = <<>> THEN <<>>
    ELSE (IF Trimmed(Head(ps)) # <<>>
          THEN ParagraphLine(StyleOf(Head(ps)), Trimmed(Head(ps)))
               \o <<"\n", "\n">>
          ELSE <<>>)
         \o ParagraphBytes(Tail(ps))

AllButLast(s) == IF s = <<>> THEN <<>> ELSE SubSeq(s, 1, Len(s) - 1)

Written == fs[OutputName(filename)]

\* C4 as stated: for a document with no tables the file written is the
\* concatenation of (rendered line, two newlines) over the non-empty
\* paragraphs in document order, ending with two newlines.
C4_Original ==
    (report = "created" /\ doc.tables = <<>>) =>
        /\ Written.kind = "text"
        /\ Written.data = ParagraphBytes(doc.paragraphs)

\* C4 amended: for a document with no tables the file written is that
\* concatenation without its last newline: the lines are joined by single
\* newlines, so the file ends with one newline after the last paragraph
\* and is empty when no paragraph has text; nothing else is written.
C4_ParagraphsOnly ==
    (report = "created" /\ doc.tables = <<>>) =>
        /\ Written.kind = "text"
        /\ Written.data = AllButLast(ParagraphBytes(doc.paragraphs))

\* C4 witness: a document without tables whose first paragraph is empty
\* and whose second has text has been written.
C4_Witness ==
    /\ report = "created"
    /\ doc.tables = <<>>
    /\ Len(doc.paragraphs) = 2
    /\ NonEmptyCount(doc.paragraphs) = 1
    /\ Trimmed(doc.paragraphs[1]) = <<>>
    /\ Written.data # <<>>

FailedBeforeWrite ==
    {"not_found", "error_parse", "error_paragraphs", "error_tables"}

\* C5: a call that fails at the existence check, while parsing or while
\* rendering leaves the set of files and every file's content as they were
\* when it began; no file changes before the write step.
C5_AllOrNothing ==
    /\ pc \in {"start", "open", "paragraphs", "tables", "write"} => fs = fs0
    /\ report \in FailedBeforeWrite => fs = fs0
    /\ \A i \in 1..Len(history) :
          history[i].report \in FailedBeforeWrite
             => history[i].after = history[i].before

\* C5 witness: a call has failed while rendering tables with an older
\* output file in place.
C5_Witness ==
    /\ pc = "done"
    /\ history[Len(history)].report = "error_tables"
    /\ history[Len(history)].after[OutputName(filename)] = TextFile(OldText)

\* C6: with the input present, the output file after every later call
\* on the same path is what it was after the first call.
C6_Idempotent ==
    \A i \in 2..Len(history) :
        history[1].before[filename].kind # "absent"
           => history[i].after[OutputName(filename)]
                 = history[1].after[OutputName(filename)]

\* C6 witness: two calls in a row have each written a non-empty output
\* over an older file.
C6_Witness ==
    /\ Len(history) = 2
    /\ history[1].report = "created"
    /\ history[2].report = "created"
    /\ history[1].before[OutputName(filename)] = TextFile(OldText)
    /\ history[2].after[OutputName(filename)].data # <<>>

\* C6 second case: the file name holds no ".docx", the first call wrote
\* over its input and the second call could not parse it.
C6_SamePathCase ==
    /\ Len(history) = 2
    /\ OutputName(filename) = filename
    /\ history[1].report = "created"
    /\ history[2].report = "error_parse"

\* C7: a call that succeeds writes one file, named as the input with its
\* trailing ".docx" replaced by "_exact_extraction.md"; the output path is
\* not the input path; the input file and every other file are unchanged.
C7_OneFileWritten ==
    \A i \in 1..Len(history) :
        history[i].report = "created" =>
            /\ OutputName(filename) # filename
            /\ history[i].after[filename] = history[i].before[filename]
            /\ \A p \in Paths \ {OutputName(filename)} :
                  history[i].after[p] = history[i].before[p]
            /\ history[i].after[OutputName(filename)].kind = "text"
            /\ EndsWith(filename, DocxExt) =>
                  OutputName(filename)
                     = SubSeq(filename, 1, Len(filename) - Len(DocxExt))
                          \o OutputSuffix

\* C8: in both scripts a call that writes the output returns the output
\* path and a call that fails returns a value no successful call returns.
C8_ReturnTellsOutcome ==
    \A i \in 1..Len(history) :
        /\ history[i].report = "created"
              => history[i].ret = StrValue(OutputName(filename))
        /\ history[i].report # "created" => history[i].ret = NoneValue

\* the header line of the k-th table
ExpectedHeading(k) == <<"#", "#", " ", "T", "a", "b", "l", "e", " ">> \o DecStr(k)

EmptyTables(d) == {k \in 1..Len(d.tables) : ~HasGrid(d.tables[k])}

\* C9 as stated: a table with no row, or with no cell in any row, emits
\* its header line and exactly one blank line, and the next line, if any,
\* is the next table's header.
C9_Original ==
    Rendered =>
        \A k \in EmptyTables(doc) :
            LET at == BlockStart(doc, k)
            IN /\ markdown_content[at] = ExpectedHeading(k)
               /\ markdown_content[at + 1] = Blank
               /\ IF k = Len(doc.tables)
                  THEN Len(markdown_content) = at + 1
                  ELSE markdown_content[at + 2] = ExpectedHeading(k + 1)

\* C9 amended: such a table emits its header line and exactly two blank
\* lines (the one after the header and the one that closes every table),
\* no grid line, and the next line, if any, is the next table's header.
C9_EmptyTable ==
    Rendered =>
        \A k \in EmptyTables(doc) :
            LET at == BlockStart(doc, k)
            IN /\ markdown_content[at] = ExpectedHeading(k)
               /\ markdown_content[at + 1] = Blank
               /\ markdown_content[at + 2] = Blank
               /\ IF k = Len(doc.tables)
                  THEN Len(markdown_content) = at + 2
                  ELSE markdown_content[at + 3] = ExpectedHeading(k + 1)

\* C9 witness: a table with no row followed by a table of one row without
\* cells has been rendered.
C9_Witness ==
    /\ Rendered
    /\ Len(doc.tables) = 2
    /\ doc.tables[1] = <<>>
    /\ doc.tables[2] = <<<<>>>>
    /\ Len(markdown_content) = BlockStart(doc, 2) + 2

\* the paragraph lines, in document order, each followed by a blank line
ParagraphsInOrder ==
    \A i \in 1..Len(doc.paragraphs) :
        LET n == NonEmptyUpTo(doc.paragraphs, i)
        IN Trimmed(doc.paragraphs[i]) # <<>> =>
              /\ EndsWith(markdown_content[2 * n - 1], Trimmed(doc.paragraphs[i]))
              /\ markdown_content[2 * n] = Blank

\* the rule, a blank line, the section header and a blank line, right
\* after the paragraphs
SectionOpened ==
    LET n == 2 * NonEmptyCount(doc.paragraphs)
    IN /\ markdown_content[n + 1] = <<"-", "-", "-">>
       /\ markdown_content[n + 2] = Blank
       /\ markdown_content[n + 3] \in {TablesSectionLine, DocumentTablesLine}
       /\ markdown_content[n + 4] = Blank

\* the k-th block: "## Table k", a blank line, the first row, the
\* separator, the remaining rows in their order
BlockInOrder(k) ==
    LET table == doc.tables[k]
    IN /\ markdown_content[BlockStart(doc, k)] = ExpectedHeading(k)
       /\ markdown_content[BlockStart(doc, k) + 1] = Blank
       /\ HasGrid(table) =>
             /\ \A r \in 1..Len(table) :
                   \A c \in 1..Len(table[r]) :
                      Fields(markdown_content[RowIndex(doc, k, r)])[c]
                         = FieldOf(CellText(table[r][c]))
             /\ \A c \in 1..Widest(table) :
                   Fields(markdown_content[SeparatorIndex(doc, k)])[c]
                      = FieldOf(<<"-", "-", "-">>)

\* C10: the lines of the non-empty paragraphs come in document order and
\* before the table section; the rule, a blank line and the section header
\* are emitted once if and only if the document has a table; the blocks
\* follow in document order, the k-th headed "## Table k", each grid being
\* the first row, one separator line, the remaining rows in their order.
C10_Ordering ==
    Rendered =>
        /\ ParagraphsInOrder
        /\ IF doc.tables = <<>>
           THEN Len(markdown_content) = 2 * NonEmptyCount(doc.paragraphs)
           ELSE /\ SectionOpened
                /\ Len(markdown_content)
                      = BlockStart(doc, Len(doc.tables) + 1) - 1
                /\ \A k \in 1..Len(doc.tables) : BlockInOrder(k)

\* C10 witness: a paragraph and two tables of two rows have been rendered.
C10_Witness ==
    /\ Rendered
    /\ NonEmptyCount(doc.paragraphs) = 1
    /\ Len(doc.tables) = 2
    /\ Len(doc.tables[1]) = 2
    /\ Len(doc.tables[2]) = 2
    /\ markdown_content[BlockStart(doc, 2)] = ExpectedHeading(2)

====
